---------------------------- MODULE Spec2Model ----------------------------
(***************************************************************************)
(* A model of the three benchmark-report scripts of node-casbin:          *)
(*   format_benchmark_data.py  (Normalizer),                              *)
(*   benchstat_simulator.py    (Comparator),                              *)
(*   benchmark_formatter.py    (TableReflow).                             *)
(*                                                                         *)
(* Text is modelled at the character level: a string is a sequence of     *)
(* one-character strings.  A character outside ASCII is written as a     *)
(* named element: "<pm>" is the plus-minus sign, "<inf>" the infinity    *)
(* sign, "<bar>" the box-drawing divider, "<mu>" the micro sign,         *)
(* "<sup1>" and "<sup2>" superscript digits, "<tick>" the backtick, and   *)
(* "<snail>", "<rocket>", "<arrow>" "<vs16>" the trend glyphs.  Each      *)
(* counts as one character, as one code point does for Python's len().    *)
(*                                                                         *)
(* Python floats are modelled as IEEE-754 binary64 values with round to   *)
(* nearest, ties to even, on arbitrary-precision naturals; the ranges    *)
(* used stay far from overflow, underflow and subnormals.                 *)
(***************************************************************************)
EXTENDS Integers, Sequences, FiniteSets, TLC

(***************************************************************************)
(* Arbitrary-precision naturals: little-endian sequences of limbs in      *)
(* 0..LimbBase-1 without leading (high) zero limbs; <<>> is zero.         *)
(***************************************************************************)
LimbBase == 2^15
LimbBits == CHOOSE n \in 1..30 : 2^n = LimbBase

RECURSIVE Pow2(_)
Pow2(n) == IF n = 0 THEN 1 ELSE 2 * Pow2(n - 1)

RECURSIVE BNorm(_)
BNorm(a) ==
  IF a = <<>> THEN <<>>
  ELSE IF a[Len(a)] = 0 THEN BNorm(SubSeq(a, 1, Len(a) - 1))
  ELSE a

RECURSIVE BN(_)
BN(n) == IF n = 0 THEN <<>> ELSE <<n % LimbBase>> \o BN(n \div LimbBase)

RECURSIVE BToInt(_)
BToInt(a) == IF a = <<>> THEN 0 ELSE a[1] + LimbBase * BToInt(Tail(a))

RECURSIVE BAddC(_, _, _)
BAddC(a, b, c) ==
  IF a = <<>> /\ b = <<>> THEN (IF c = 0 THEN <<>> ELSE <<c>>)
  ELSE LET x == IF a = <<>> THEN 0 ELSE a[1]
           y == IF b = <<>> THEN 0 ELSE b[1]
           s == x + y + c
           ra == IF a = <<>> THEN <<>> ELSE Tail(a)
           rb == IF b = <<>> THEN <<>> ELSE Tail(b)
       IN  <<s % LimbBase>> \o BAddC(ra, rb, s \div LimbBase)

BAdd(a, b) == BAddC(a, b, 0)

\* a - b for a >= b
RECURSIVE BSubC(_, _, _)
BSubC(a, b, c) ==
  IF a = <<>> THEN <<>>
  ELSE LET y == IF b = <<>> THEN 0 ELSE b[1]
           d == a[1] - y - c
           rb == IF b = <<>> THEN <<>> ELSE Tail(b)
       IN  IF d < 0 THEN <<d + LimbBase>> \o BSubC(Tail(a), rb, 1)
           ELSE <<d>> \o BSubC(Tail(a), rb, 0)

BSub(a, b) == BNorm(BSubC(a, b, 0))

\* -1, 0, 1 as a < b, a = b, a > b
RECURSIVE BCmpFrom(_, _, _)
BCmpFrom(a, b, i) ==
  IF i = 0 THEN 0
  ELSE IF a[i] < b[i] THEN -1
  ELSE IF a[i] > b[i] THEN 1
  ELSE BCmpFrom(a, b, i - 1)

BCmp(a, b) ==
  IF Len(a) < Len(b) THEN -1
  ELSE IF Len(a) > Len(b) THEN 1
  ELSE BCmpFrom(a, b, Len(a))

\* a * k + c for 0 <= k < LimbBase
RECURSIVE BMulSmallC(_, _, _)
BMulSmallC(a, k, c) ==
  IF a = <<>> THEN (IF c = 0 THEN <<>> ELSE <<c>>)
  ELSE LET p == a[1] * k + c
       IN  <<p % LimbBase>> \o BMulSmallC(Tail(a), k, p \div LimbBase)

BMulSmall(a, k) == BNorm(BMulSmallC(a, k, 0))

RECURSIVE BMul(_, _)
BMul(a, b) ==
  IF a = <<>> \/ b = <<>> THEN <<>>
  ELSE LET rest == BMul(a, Tail(b))
           shifted == IF rest = <<>> THEN <<>> ELSE <<0>> \o rest
       IN  BAdd(BMulSmall(a, b[1]), shifted)

\* quotient and remainder of a by a small k, 0 < k <= LimbBase
RECURSIVE BDivSmallFrom(_, _, _, _)
BDivSmallFrom(a, k, i, r) ==
  IF i = 0 THEN <<<<>>, r>>
  ELSE LET cur == r * LimbBase + a[i]
           lower == BDivSmallFrom(a, k, i - 1, cur % k)
       IN  <<Append(lower[1], cur \div k), lower[2]>>

BDivSmall(a, k) ==
  LET qr == BDivSmallFrom(a, k, Len(a), 0)
  IN  <<BNorm(qr[1]), qr[2]>>

Zeros(n) == [i \in 1..n |-> 0]

BShl(a, n) ==
  IF a = <<>> THEN <<>>
  ELSE Zeros(n \div LimbBits) \o BMulSmall(a, Pow2(n % LimbBits))

BShr(a, n) ==
  IF Len(a) <= n \div LimbBits THEN <<>>
  ELSE BDivSmall(SubSeq(a, (n \div LimbBits) + 1, Len(a)), Pow2(n % LimbBits))[1]

RECURSIVE IntBitLen(_)
IntBitLen(n) == IF n = 0 THEN 0 ELSE 1 + IntBitLen(n \div 2)

BBitLen(a) == IF a = <<>> THEN 0 ELSE (Len(a) - 1) * LimbBits + IntBitLen(a[Len(a)])

\* bit i (0 is the lowest)
BBit(a, i) ==
  IF Len(a) <= i \div LimbBits THEN 0
  ELSE (a[(i \div LimbBits) + 1] \div Pow2(i % LimbBits)) % 2

\* the low n bits of a are all 0
BLowZero(a, n) == BShl(BShr(a, n), n) = a

\* the element of a singleton set: The({e(v) : v \in {d}}) is e with d for v
The(S) == CHOOSE only \in S : TRUE

\* Binary long division of a by b > 0, <<quotient, remainder>>.  One step
\* shifts the next bit of a into the remainder r2 and subtracts b if it fits.
BDivStep(b, st, bit) ==
  The({IF BCmp(r2, b) >= 0
       THEN <<BNorm(BMulSmallC(st[1], 2, 1)), BSub(r2, b)>>
       ELSE <<BNorm(BMulSmallC(st[1], 2, 0)), r2>> :
       r2 \in {BNorm(BMulSmallC(st[2], 2, bit))}})

\* the steps for the bits k, k-1 .. 0 of the limb v
RECURSIVE BDivBits(_, _, _, _)
BDivBits(b, st, v, k) ==
  IF k < 0 THEN st
  ELSE The({BDivBits(b, nx, v, k - 1) :
            nx \in {BDivStep(b, st, (v \div Pow2(k)) % 2)}})

BDivLimb(b, st, v) == BDivBits(b, st, v, LimbBits - 1)

\* the steps for the limbs i, i-1 .. 1 of a
RECURSIVE BDivModFrom(_, _, _, _)
BDivModFrom(a, b, i, st) ==
  IF i = 0 THEN st
  ELSE The({BDivModFrom(a, b, i - 1, nx) : nx \in {BDivLimb(b, st, a[i])}})

BDivMod(a, b) == BDivModFrom(a, b, Len(a), <<<<>>, <<>>>>)

RECURSIVE BPow10(_)
BPow10(p) == IF p = 0 THEN BN(1) ELSE BMulSmall(BPow10(p - 1), 10)

\* N / 2^sh (plus, when sticky, a positive amount below one unit of N)
\* rounded to the nearest natural, ties to even, for sh >= 1
BRoundShr(N, sh, sticky) ==
  The({IF BBit(N, sh - 1) = 1
          /\ (sticky \/ ~BLowZero(N, sh - 1) \/ BBit(q, 0) = 1)
       THEN BAdd(q, BN(1)) ELSE q :
       q \in {BShr(N, sh)}})


(***************************************************************************)
(* IEEE-754 binary64.  A float is a record [sg, m, e] of value            *)
(* (-1)^sg * m * 2^e with m = 0 or 2^52 <= m < 2^53; zero is signed.      *)
(***************************************************************************)
\* the precision of binary64: 53 significant bits
Binary64 == [precision |-> 53]
MantBits == Binary64.precision

DSignedZero(sg) == [sg |-> sg, m |-> <<>>, e |-> 0]
DZero == DSignedZero(0)

\* the float of the rounded mantissa q2 * 2^e, q2 of MantBits bits or 2^MantBits
DCarry(sg, q2, e) ==
  IF BBitLen(q2) > MantBits
  THEN [sg |-> sg, m |-> BShr(q2, 1), e |-> e + 1]
  ELSE [sg |-> sg, m |-> q2, e |-> e]

\* the float nearest to N * 2^e for N of L bits
DRoundLen(sg, N, e, sticky, L) ==
  IF L <= MantBits
  THEN [sg |-> sg, m |-> BShl(N, MantBits - L), e |-> e - (MantBits - L)]
  ELSE DCarry(sg, BRoundShr(N, L - MantBits, sticky), e + (L - MantBits))

\* the float nearest to N * 2^e (plus, when sticky, a positive amount below
\* one unit of N), ties to even
DRound(sg, N, e, sticky) ==
  IF N = <<>> THEN DSignedZero(sg) ELSE DRoundLen(sg, N, e, sticky, BBitLen(N))

\* the float nearest to the quotient qr[1] * 2^e with remainder qr[2]
DRoundQuot(sg, qr, e) == DRound(sg, qr[1], e, qr[2] # <<>>)

DIsZero(x) == x.m = <<>>

DNeg(x) == [x EXCEPT !.sg = 1 - x.sg]

DMul(x, y) ==
  IF DIsZero(x) \/ DIsZero(y) THEN DSignedZero((x.sg + y.sg) % 2)
  ELSE DRound((x.sg + y.sg) % 2, BMul(x.m, y.m), x.e + y.e, FALSE)

\* (-1)^sx * X * 2^e + (-1)^sy * Y * 2^e for X, Y > 0, c being BCmp(X, Y)
DAddAligned(sx, X, sy, Y, e, c) ==
  IF sx = sy THEN DRound(sx, BAdd(X, Y), e, FALSE)
  ELSE IF c = 0 THEN DZero
  ELSE DRound(IF c > 0 THEN sx ELSE sy,
              IF c > 0 THEN BSub(X, Y) ELSE BSub(Y, X), e, FALSE)

\* x + y on mantissas aligned at the exponent e, the lower of the two
DAddAt(x, y, e) ==
  The({DAddAligned(x.sg, al[1], y.sg, al[2], e, BCmp(al[1], al[2])) :
       al \in {<<BShl(x.m, x.e - e), BShl(y.m, y.e - e)>>}})

DAdd(x, y) ==
  IF DIsZero(x) /\ DIsZero(y) THEN DSignedZero(x.sg * y.sg)
  ELSE IF DIsZero(x) THEN y
  ELSE IF DIsZero(y) THEN x
  ELSE DAddAt(x, y, IF x.e < y.e THEN x.e ELSE y.e)

DSub(x, y) == DAdd(x, DNeg(y))

\* x / y for y # 0
DDiv(x, y) ==
  IF DIsZero(x) THEN DSignedZero((x.sg + y.sg) % 2)
  ELSE DRoundQuot((x.sg + y.sg) % 2, BDivMod(BShl(x.m, MantBits + 2), y.m),
                  x.e - y.e - (MantBits + 2))

\* -1, 0, 1 as |x| < |y|, |x| = |y|, |x| > |y|
DMagCmp(x, y) ==
  IF DIsZero(x) THEN (IF DIsZero(y) THEN 0 ELSE -1)
  ELSE IF DIsZero(y) THEN 1
  ELSE IF x.e # y.e THEN (IF x.e > y.e THEN 1 ELSE -1)
  ELSE BCmp(x.m, y.m)

\* -1, 0, 1 as x < y, x = y, x > y
DCmp(x, y) ==
  IF DIsZero(x) /\ DIsZero(y) THEN 0
  ELSE IF x.sg # y.sg THEN (IF x.sg = 1 THEN -1 ELSE 1)
  ELSE IF x.sg = 1 THEN 0 - DMagCmp(x, y)
  ELSE DMagCmp(x, y)

DGt(x, y) == DCmp(x, y) > 0
DLt(x, y) == DCmp(x, y) < 0

\* the float nearest to the decimal D / 10^p (D a natural as limbs): what
\* float("...") returns for a decimal literal
DFromDec(sg, D, p) ==
  IF D = <<>> THEN DSignedZero(sg)
  ELSE DRoundQuot(sg, BDivMod(BShl(D, 64 + 4 * p), BPow10(p)), 0 - (64 + 4 * p))

\* the float of a natural n
DInt(n) == DRound(0, BN(n), 0, FALSE)

\* |x| * 10^d rounded to the nearest natural, ties to even, on the exact
\* binary value: the digits printed by a fixed-point format with d decimals
DScaledRound(x, d) ==
  IF DIsZero(x) THEN <<>>
  ELSE IF x.e >= 0 THEN BShl(BMul(x.m, BPow10(d)), x.e)
  ELSE BRoundShr(BMul(x.m, BPow10(d)), 0 - x.e, FALSE)

DigitChars == <<"0", "1", "2", "3", "4", "5", "6", "7", "8", "9">>

RECURSIVE BDecimal(_)
BDecimal(a) ==
  IF a = <<>> THEN <<>>
  ELSE The({Append(BDecimal(qr[1]), DigitChars[qr[2] + 1]) :
            qr \in {BDivSmall(a, 10)}})

\* the text of sign and hundredths: qr is <<integer part, hundredths>>
FormatHundredths(sign, qr) ==
  sign
  \o (IF qr[1] = <<>> THEN <<"0">> ELSE BDecimal(qr[1]))
  \o <<".">>
  \o <<DigitChars[(qr[2] \div 10) + 1], DigitChars[(qr[2] % 10) + 1]>>

\* Python's f"{x:+.2f}"
FormatPlus2f(x) ==
  FormatHundredths(IF x.sg = 1 THEN <<"-">> ELSE <<"+">>,
                   BDivSmall(DScaledRound(x, 2), 100))

\* Python's f"{x:.2f}"
Format2f(x) ==
  FormatHundredths(IF x.sg = 1 THEN <<"-">> ELSE <<>>,
                   BDivSmall(DScaledRound(x, 2), 100))


(***************************************************************************)
(* Text helpers: Python's str methods and the regular expressions of      *)
(* benchmark_formatter.py, on sequences of characters.                    *)
(***************************************************************************)
SpaceChars == {" ", "<tab>"}
DigitSet == {"0", "1", "2", "3", "4", "5", "6", "7", "8", "9"}
\* the class [a-zA-Z<mu>] of the number pattern
AlphaChars ==
  {"a", "b", "c", "d", "e", "f", "g", "h", "i", "j", "k", "l", "m", "n", "o",
   "p", "q", "r", "s", "t", "u", "v", "w", "x", "y", "z", "A", "B", "C", "D",
   "E", "F", "G", "H", "I", "J", "K", "L", "M", "N", "O", "P", "Q", "R", "S",
   "T", "U", "V", "W", "X", "Y", "Z", "<mu>"}
SuperscriptChars ==
  {"<sup1>", "<sup2>", "<sup3>", "<sup4>", "<sup5>", "<sup6>", "<sup7>",
   "<sup8>", "<sup9>", "<sup0>"}

Range(f) == {f[k] : k \in DOMAIN f}
SetMin(S) == CHOOSE lo \in S : \A o \in S : lo <= o
SetMax(S) == CHOOSE hi \in S : \A o \in S : o <= hi

\* str.startswith, and the same at an offset
StartsAt(str, i, pre) ==
  /\ i >= 1
  /\ i + Len(pre) - 1 <= Len(str)
  /\ \A k \in 1..Len(pre) : str[i + k - 1] = pre[k]
StartsWith(str, pre) == StartsAt(str, 1, pre)

\* the `in` operator on strings
Contains(str, sub) == \E i \in 1..(Len(str) + 1) : StartsAt(str, i, sub)
HasChar(str, c) == \E i \in 1..Len(str) : str[i] = c

\* the first index >= i whose character is outside cls (Len + 1 if none)
SkipClass(str, i, cls) ==
  SetMin({j \in i..(Len(str) + 1) : j = Len(str) + 1 \/ str[j] \notin cls})

\* str.rstrip() / str.rstrip(chars), str.lstrip(), str.strip()
RStripSet(str, cls) ==
  LET keep == {i \in 1..Len(str) : str[i] \notin cls}
  IN  IF keep = {} THEN <<>> ELSE SubSeq(str, 1, SetMax(keep))
LStripSet(str, cls) == SubSeq(str, SkipClass(str, 1, cls), Len(str))
RStrip(str) == RStripSet(str, SpaceChars)
Strip(str) == LStripSet(RStrip(str), SpaceChars)

\* str.split(sep)[0]: the part before the first sep
BeforeFirst(str, c) ==
  LET at == {i \in 1..Len(str) : str[i] = c}
  IN  IF at = {} THEN str ELSE SubSeq(str, 1, SetMin(at) - 1)

\* the characters of str outside cls, in order (re.sub of a class by "")
RemoveChars(str, cls) ==
  LET keep == {i \in 1..Len(str) : str[i] \notin cls}
  IN  [j \in 1..Cardinality(keep) |->
         str[CHOOSE i \in keep : Cardinality({k \in keep : k <= i}) = j]]

\* the last index of the run of non-space characters that contains index i
EndOfToken(text, i) ==
  SetMin({j \in i..(Len(text) + 1) : j = Len(text) + 1 \/ text[j] \in SpaceChars}) - 1
\* the first index of that run
StartOfToken(text, i) ==
  SetMax({j \in 1..i : j = 1 \/ text[j - 1] \in SpaceChars})

\* str.split(): the maximal runs of non-space characters, in order
TokenStarts(str) ==
  {i \in 1..Len(str) : str[i] \notin SpaceChars /\ (i = 1 \/ str[i - 1] \in SpaceChars)}
TokenAt(str, i) == SubSeq(str, i, EndOfToken(str, i))
Split(str) ==
  LET st == TokenStarts(str)
  IN  [j \in 1..Cardinality(st) |->
         TokenAt(str, CHOOSE i \in st : Cardinality({k \in st : k <= i}) = j)]

Spaces(n) == [i \in 1..n |-> " "]


(***************************************************************************)
(* benchmark_formatter.py: the helper functions.                          *)
(***************************************************************************)
BenchmarkWord == <<"B", "e", "n", "c", "h", "m", "a", "r", "k">>

\* Index i lies in a match of (\S+?)-\d+(\s|$) outside group 1 and group 2:
\* in the "-digits" that ends its run of non-space characters, when at least
\* one character of the run precedes the dash.
InWorkerSuffix(text, i) ==
  /\ text[i] \notin SpaceChars
  /\ \E d \in (StartOfToken(text, i) + 1)..i :
        /\ text[d] = "-"
        /\ d < EndOfToken(text, i)
        /\ \A k \in (d + 1)..EndOfToken(text, i) : text[k] \in DigitSet

strip_worker_suffix(text) ==
  LET t1 == IF StartsWith(text, BenchmarkWord)
            THEN SubSeq(text, Len(BenchmarkWord) + 1, Len(text))
            ELSE text
      keep == {i \in 1..Len(t1) : ~InWorkerSuffix(t1, i)}
  IN  [j \in 1..Cardinality(keep) |->
         t1[CHOOSE i \in keep : Cardinality({k \in keep : k <= i}) = j]]

D10 == DInt(10)
D100 == DInt(100)

SlowerIcon == <<"<snail>">>
FasterIcon == <<"<rocket>">>
NeutralIcon == <<"<arrow>", "<vs16>">>

get_icon(diff_val) ==
  IF DGt(diff_val, D10) THEN SlowerIcon
  ELSE IF DLt(diff_val, DNeg(D10)) THEN FasterIcon
  ELSE NeutralIcon

clean_superscripts(text) == RemoveChars(text, SuperscriptChars)

\* the natural written by a string of decimal digits
RECURSIVE DigitsValue(_)
DigitsValue(ds) ==
  IF ds = <<>> THEN <<>>
  ELSE BNorm(BMulSmallC(DigitsValue(SubSeq(ds, 1, Len(ds) - 1)), 10,
                        CHOOSE v \in 0..9 : DigitChars[v + 1] = ds[Len(ds)]))

\* The match of ^([-+]?\d*\.?\d+)([a-zA-Z<mu>]+)?$ on tok:
\* [ok, sg, digits, decimals, suffix]
MatchNumber(tok) ==
  LET signed == tok # <<>> /\ tok[1] \in {"-", "+"}
      i0 == IF signed THEN 2 ELSE 1
      a == SkipClass(tok, i0, DigitSet)
      dot == a <= Len(tok) /\ tok[a] = "."
      b == IF dot THEN SkipClass(tok, a + 1, DigitSet) ELSE a
      numOk == IF dot THEN b > a + 1 ELSE a > i0
      rest == SubSeq(tok, b, Len(tok))
  IN  [ok |-> numOk /\ \A k \in 1..Len(rest) : rest[k] \in AlphaChars,
       sg |-> IF signed /\ tok[1] = "-" THEN 1 ELSE 0,
       digits |-> SubSeq(tok, i0, a - 1) \o (IF dot THEN SubSeq(tok, a + 1, b - 1) ELSE <<>>),
       decimals |-> IF dot THEN b - a - 1 ELSE 0,
       suffix |-> [k \in 1..Len(rest) |-> IF rest[k] = "<mu>" THEN "u" ELSE rest[k]]]

NoValue == [kind |-> "none", val |-> DZero]
Value(v) == [kind |-> "val", val |-> v]
\* a variant that swallows the error and reports no number
RaiseSwallowed == [kind |-> "none", val |-> DZero]
Raise == [kind |-> "raise", val |-> DZero]

\* the float literals 1e-9, 1e-6, 1e-3 of the source
Scale(p) == DFromDec(0, BN(1), p)

parse_val(token) ==
  IF HasChar(token, "%") \/ HasChar(token, "=") THEN NoValue
  ELSE The({
    IF tok = <<>> THEN NoValue
    ELSE The({
      IF ~mt.ok THEN NoValue
      ELSE The({
        IF mt.suffix \in {<<"n">>, <<"n", "s">>} THEN Value(DMul(val, Scale(9)))
        ELSE IF mt.suffix \in {<<"u">>, <<"u", "s">>} THEN Value(DMul(val, Scale(6)))
        ELSE IF mt.suffix \in {<<"m">>, <<"m", "s">>} THEN Value(DMul(val, Scale(3)))
        ELSE IF mt.suffix = <<"s">> THEN Value(val)
        ELSE IF mt.suffix = <<>> THEN Value(val)
        ELSE Raise :
        val \in {DFromDec(mt.sg, DigitsValue(mt.digits), mt.decimals)}}) :
      mt \in {MatchNumber(tok)}}) :
    tok \in {Strip(BeforeFirst(Strip(BeforeFirst(clean_superscripts(token),
                                                 "<pm>")), "("))}})


\* the separator tokens skipped by extract_two_numbers
SeparatorTokens == {<<"<pm>">>, <<"<inf>">>, <<"~">>, <<"<bar>">>, <<"|">>}

(***************************************************************************)
(* The inputs of the model: the lines a report is made of and the tokens  *)
(* a data line is made of.                                                *)
(***************************************************************************)
L_FENCE ==
  <<"<tick>", "<tick>", "<tick>">>
L_TEN ==
  <<"A", "-", "8", " ", "1", "m", " ", "1", ".", "1", "m">>
L_LONG ==
  <<"B", "e", "n", "c", "h", "m", "a", "r", "k", "L", "o", "n", "g", " ",
    "1", "m", " ", "<pm>", " ", "<inf>", " ", "<sup1>", " ", "0", ".", "8",
    "5", "m", " ", "~", " ", "(", "p", "=", "1", ".", "0", "0", "0", " ",
    "n", "=", "1", ")", " ", "<sup2>">>
L_BAD ==
  <<"B", " ", "5", "x">>
L_LATE ==
  <<"C", " ", "1", "n", " ", "2", "n", " ", "5", "x">>
L_META ==
  <<"c", "p", "u", ":", " ", "o", "l", "d", " ", "<bar>">>
L_HDR ==
  <<"<bar>", " ", "v", "s", " ", "b", "a", "s", "e", " ", "<bar>", " ",
    "D", "i", "f", "f">>
L_FOOT ==
  <<"<sup1>", " ", "n", "e", "e", "d", " ", ">", "=", " ", "6", " ", "s",
    "a", "m", "p", "l", "e", "s">>
L_BLANK ==
  <<>>
L_OLDNEW ==
  <<"<bar>", " ", "o", "l", "d", " ", "<bar>", " ", "n", "e", "w">>

LinePool ==
  {L_FENCE, L_TEN, L_LONG, L_BAD, L_LATE, L_META, L_HDR, L_FOOT, L_BLANK,
   L_OLDNEW}

T_NAME ==
  <<"A">>
T_1m ==
  <<"1", "m">>
T_1p1m ==
  <<"1", ".", "1", "m">>
T_0p85m ==
  <<"0", ".", "8", "5", "m">>
T_5n ==
  <<"5", "n">>
T_123ms ==
  <<"1", "2", "3", ".", "4", "5", "m", "s">>
T_PCT ==
  <<"5", "0", "%">>
T_PVAL ==
  <<"p", "=", "0", ".", "0", "5">>
T_PM ==
  <<"<pm>">>
T_BADUNIT ==
  <<"5", "x">>
T_ZERO ==
  <<"0">>

TokenPool ==
  {T_NAME, T_1m, T_1p1m, T_0p85m, T_5n, T_123ms, T_PCT, T_PVAL, T_PM,
   T_BADUNIT, T_ZERO}

\* every token the model can present to parse_val
KnownTokens ==
  TokenPool \cup UNION {{Split(strip_worker_suffix(l))[j] :
                           j \in 1..Len(Split(strip_worker_suffix(l)))} : l \in LinePool}

\* parse_val, evaluated once per known token
ParseTable == [t \in KnownTokens |-> parse_val(t)]
ParsedVal(token) == ParseTable[token]

\* The scan of extract_two_numbers from token i on, with the magnitudes found
\* so far.  [kind, found]: kind is "raise" when parse_val raises ValueError.
RECURSIVE ExtractFrom(_, _, _)
ExtractFrom(toks, i, fnd) ==
  IF i > Len(toks) THEN [kind |-> "ok", found |-> fnd]
  ELSE IF toks[i] \in SeparatorTokens THEN ExtractFrom(toks, i + 1, fnd)
  ELSE IF HasChar(toks[i], "%") \/ HasChar(toks[i], "=")
       THEN ExtractFrom(toks, i + 1, fnd)
  ELSE IF StartsWith(toks[i], <<"p", "=">>) \/ StartsWith(toks[i], <<"n", "=">>)
       THEN ExtractFrom(toks, i + 1, fnd)
  ELSE The({
         IF pv.kind = "raise" THEN [kind |-> "raise", found |-> fnd]
         ELSE IF pv.kind = "none" THEN ExtractFrom(toks, i + 1, fnd)
         ELSE IF Len(fnd) + 1 = 2
              THEN [kind |-> "ok", found |-> Append(fnd, pv.val)]
         ELSE ExtractFrom(toks, i + 1, Append(fnd, pv.val)) :
         pv \in {ParsedVal(toks[i])}})

\* for t in tokens[1:]: the first token is the name
\* a variant that scans the name token as well
extract_from_name(tokens) == ExtractFrom(tokens, 1, <<>>)
extract_two_numbers(tokens) == ExtractFrom(tokens, 2, <<>>)

\* diff_val = (numbers[1] - numbers[0]) / numbers[0] * 100
diff_val_of(numbers) ==
  DMul(DDiv(DSub(numbers[2], numbers[1]), numbers[1]), D100)

\* f"{diff_val:+.2f}% {icon}"
diff_content(dv) == FormatPlus2f(dv) \o <<"%", " ">> \o get_icon(dv)

INDENT == Spaces(8)

\* line.strip().startswith(fence): the trimmed line starts with three backticks
is_fence(ln) == StartsWith(Strip(ln), <<"<tick>", "<tick>", "<tick>">>)

\* re.search(r"need\s*>?=\s*\d+\s+samples", line)
NeedSamplesAt(ln, i) ==
  LET a == SkipClass(ln, i + 4, SpaceChars)
      b == IF a <= Len(ln) /\ ln[a] = ">" THEN a + 1 ELSE a
      c == SkipClass(ln, b + 1, SpaceChars)
      d == SkipClass(ln, c, DigitSet)
      e == SkipClass(ln, d, SpaceChars)
  IN  /\ StartsAt(ln, i, <<"n", "e", "e", "d">>)
      /\ b <= Len(ln) /\ ln[b] = "="
      /\ d > c
      /\ e > d
      /\ StartsAt(ln, e, <<"s", "a", "m", "p", "l", "e", "s">>)

\* re.match(r"^\s*[superscripts]", line) or the need-samples pattern
is_footnote(ln) ==
  \/ LET f == SkipClass(ln, 1, SpaceChars)
     IN  f <= Len(ln) /\ ln[f] \in SuperscriptChars
  \/ \E i \in 1..Len(ln) : NeedSamplesAt(ln, i)

MetadataPrefixes ==
  {<<"g", "o", "o", "s", ":">>, <<"g", "o", "a", "r", "c", "h", ":">>, <<"p", "k", "g", ":">>, <<"c", "p", "u", ":">>}

\* not line.strip() or line.strip().startswith(("goos:", "goarch:", "pkg:", "cpu:"))
is_metadata(ln) ==
  \/ Strip(ln) = <<>>
  \/ \E pre \in MetadataPrefixes : StartsWith(Strip(ln), pre)

VsBase == <<"v", "s", " ", "b", "a", "s", "e">>

\* the divider in line and ("vs base" in line or "old" in line or "new" in line)
is_header(ln) ==
  /\ HasChar(ln, "<bar>")
  /\ \/ Contains(ln, VsBase)
     \/ Contains(ln, <<"o", "l", "d">>)
     \/ Contains(ln, <<"n", "e", "w">>)

\* re.sub(r"\s+Diff\s*$", "", text, flags=re.IGNORECASE) on a text without
\* trailing whitespace: a final "diff" in any case goes, with the run of
\* whitespace before it
StripDiffLabel(text) ==
  LET n == Len(text)
      word == n >= 5
              /\ text[n - 3] \in {"d", "D"} /\ text[n - 2] \in {"i", "I"}
              /\ text[n - 1] \in {"f", "F"} /\ text[n] \in {"f", "F"}
              /\ text[n - 4] \in SpaceChars
  IN  IF word THEN RStrip(SubSeq(text, 1, n - 4)) ELSE text

\* line.rstrip().rstrip(divider).rstrip(), then the Diff label removed
stripped_header_of(ln) ==
  StripDiffLabel(RStrip(RStripSet(RStrip(ln), {"<bar>"})))

\* left padded to the diff column, or followed by two spaces
\* a variant that pads one column too far
PadToColumnOffByOne(left, dcs) ==
  IF Len(left) < dcs THEN left \o Spaces(dcs - Len(left) + 1)
  ELSE left \o Spaces(2)

PadToColumn(left, dcs) ==
  IF Len(left) < dcs THEN left \o Spaces(dcs - Len(left))
  ELSE left \o Spaces(2)

append_aligned(left_part, content, dcs) == INDENT \o PadToColumn(left_part, dcs) \o content


\* diff_val and its rendering for a pair of magnitudes with numbers[0] != 0
diff_entry(dv) == [diff_val |-> dv, content |-> diff_content(dv)]

\* diff_entry, evaluated once per pair of known magnitudes
KnownValues == {pv.val : pv \in {q \in Range(ParseTable) : q.kind = "val"}}
KnownPairs == {nums \in {<<a, b>> : a, b \in KnownValues} : ~DIsZero(nums[1])}
DiffTable == [numbers \in KnownPairs |-> diff_entry(diff_val_of(numbers))]
DiffOf(numbers) == DiffTable[numbers]

\* The header branch of the emission pass for one line.
\* a variant that labels every header, with or without "vs base"
header_line_always_labelled(ln, dcs) ==
  INDENT \o PadToColumn(stripped_header_of(ln), dcs) \o <<"D", "i", "f", "f">>
         \o <<"<bar>">>

header_line(ln, dcs) ==
  LET stripped_header == stripped_header_of(ln)
      new_header == PadToColumn(stripped_header, dcs)
                    \o (IF Contains(ln, VsBase) THEN <<"D", "i", "f", "f">> ELSE <<>>)
                    \o <<"<bar>">>
  IN  INDENT \o new_header

\* The data branch of the emission pass for one line, up to the alignment:
\* [kind, left, content, plain].  kind is "raise" when extract_two_numbers
\* raises, "diff" when a diff value is appended to left, "plain" when the
\* line is emitted as plain.
data_parts(ln) ==
  The({
    IF Split(stripped) = <<>>
    THEN [kind |-> "plain", left |-> <<>>, content |-> <<>>, plain |-> stripped]
    ELSE The({
      IF ext.kind = "raise"
      THEN [kind |-> "raise", left |-> <<>>, content |-> <<>>, plain |-> <<>>]
      ELSE IF Len(ext.found) = 2 /\ ~DIsZero(ext.found[1])
      THEN [kind |-> "diff", left |-> RStrip(stripped),
            content |-> DiffOf(ext.found).content, plain |-> <<>>]
      ELSE [kind |-> "plain", left |-> <<>>, content |-> <<>>, plain |-> stripped] :
      ext \in {extract_two_numbers(Split(stripped))}}) :
    stripped \in {strip_worker_suffix(ln)}})

\* what the two passes read off one line, whatever the diff column is
analyse(ln) ==
  [fence |-> is_fence(ln),
   footnote |-> is_footnote(ln),
   metadata |-> is_metadata(ln),
   header |-> is_header(ln),
   width |-> Len(RStrip(strip_worker_suffix(ln))),
   data |-> data_parts(ln)]

\* analyse, evaluated once per line of the pool
LineTable == [l \in LinePool |-> analyse(l)]
Facts(ln) == LineTable[ln]


(***************************************************************************)
(* format_benchmark_data.py: the conversion of one record.  A JSON number *)
(* is held as its text; a JSON object as a function on its keys.          *)
(***************************************************************************)
\* dict.get(k, default)
Get(d, k, default) == IF k \in DOMAIN d THEN d[k] ELSE default

\* re.sub(r"^Benchmark", "", name)
normalize_name(name) ==
  IF StartsWith(name, BenchmarkWord)
  THEN SubSeq(name, Len(BenchmarkWord) + 1, Len(name))
  ELSE name

\* the float a JSON number text is loaded as
json_float(txt) ==
  The({DFromDec(mt.sg, DigitsValue(mt.digits), mt.decimals) :
       mt \in {MatchNumber(txt)}})

\* the float literals 1.0 and 1e9 of the source
D1 == DInt(1)
D1e9 == DRound(0, BPow10(9), 0, FALSE)

\* round(x, 2): the decimal with two places nearest to the exact value of x,
\* ties to even, read back as a float
py_round2(x) == DFromDec(x.sg, DScaledRound(x, 2), 2)

\* val_ns = (1.0 / score) * 1e9
val_ns_of(score) == DMul(DDiv(D1, score), D1e9)

S_MILLION ==
  <<"1", "0", "0", "0", "0", "0", "0">>
S_THREE ==
  <<"3">>
S_HUGE ==
  <<"3", "0", "0", "0", "0", "0", "0", "0", "0", "0", "0", "0">>
S_ZERO ==
  <<"0">>
S_NEG ==
  <<"-", "5">>

ScorePool == {S_MILLION, S_THREE, S_HUGE, S_ZERO, S_NEG}

\* score > 0 and round(val_ns, 2), evaluated once per score of the pool
score_entry(score) ==
  [positive |-> DGt(score, DZero),
   value |-> IF DGt(score, DZero) THEN py_round2(val_ns_of(score)) ELSE DZero]
ScoreTable == [txt \in ScorePool |-> score_entry(json_float(txt))]
DefaultScore == [positive |-> FALSE, value |-> DZero]
NoMetric == [k \in {} |-> 0]

\* The body of the loop for one record: [included, record].
convert(bench) ==
  The({[included |-> score.positive /\ Get(Get(bench, "primaryMetric", NoMetric),
                                           "scoreUnit", "") = "ops/s",
        record |-> [name |-> normalize_name(Get(bench, "benchmark", <<>>)),
                    value |-> score.value,
                    unit |-> "ns/op",
                    extra |-> ""]] :
       score \in {IF "score" \in DOMAIN Get(bench, "primaryMetric", NoMetric)
                  THEN ScoreTable[bench.primaryMetric.score]
                  ELSE DefaultScore}})

N_BENCH ==
  <<"B", "e", "n", "c", "h", "m", "a", "r", "k", "A">>
N_PLAIN ==
  <<"B">>

\* the records an input file is made of
BenchPool ==
  {[benchmark |-> nm, primaryMetric |-> [score |-> sc, scoreUnit |-> "ops/s"]] :
     nm \in {N_BENCH, N_PLAIN}, sc \in ScorePool}
  \cup {[benchmark |-> N_BENCH,
         primaryMetric |-> [score |-> S_MILLION, scoreUnit |-> "ns/op"]],
        [benchmark |-> N_PLAIN],
        [primaryMetric |-> [score |-> S_THREE, scoreUnit |-> "ops/s"]]}


(***************************************************************************)
(* benchstat_simulator.py: the cells and the rows of the table.           *)
(***************************************************************************)
\* the float literals 1e3, 1e6 of the source (1e9 is D1e9)
D1e3 == DRound(0, BPow10(3), 0, FALSE)
D1e6 == DRound(0, BPow10(6), 0, FALSE)

\* format_val for a number (None is never passed by the rows)
format_val(val) ==
  IF DLt(val, D1e3) THEN Format2f(val) \o <<"n">>
  ELSE IF DLt(val, D1e6) THEN Format2f(DDiv(val, D1e3)) \o <<"<mu>">>
  ELSE IF DLt(val, D1e9) THEN Format2f(DDiv(val, D1e6)) \o <<"m">>
  ELSE Format2f(DDiv(val, D1e9)) \o <<"s">>

NotAvailable == <<"N", "/", "A">>
CellSuffix == <<" ", "<pm>", " ", "<inf>", " ", "<sup1>">>
Annotation ==
  <<"~", " ", "(", "p", "=", "1", ".", "0", "0", "0", " ", "n", "=", "1", ")", " ", "<sup2>">>

\* format_cell(val)
format_cell(val) ==
  IF DIsZero(val) THEN NotAvailable ELSE format_val(val) \o CellSuffix

V_NEG ==
  <<"-", "2">>
V_ZERO ==
  <<"0">>
V_FAST ==
  <<"9", "9", "9", ".", "9", "9">>
V_SLOW ==
  <<"1", "5", "0", "0">>

ValuePool == {V_NEG, V_ZERO, V_FAST, V_SLOW}

\* what a row reads off a value, evaluated once per value of the pool and
\* for the default 0 of a missing name
value_entry(val) ==
  [val |-> val, positive |-> DGt(val, DZero), cell |-> format_cell(val)]
ValueTable == [txt \in ValuePool |-> value_entry(json_float(txt))]
MissingValue == value_entry(DInt(0))

\* f"{text:<width}"
PadRight(text, width) ==
  IF Len(text) >= width THEN text ELSE text \o Spaces(width - Len(text))

\* the code points of the characters names are made of, in increasing order
CodePointOrder ==
  <<"A", "B", "C", "D", "E", "F", "G", "H", "I", "J", "K", "L", "M", "N", "O",
    "P", "Q", "R", "S", "T", "U", "V", "W", "X", "Y", "Z", "a", "b", "c", "d",
    "e", "f", "g", "h", "i", "j", "k", "l", "m", "n", "o", "p", "q", "r", "s",
    "t", "u", "v", "w", "x", "y", "z">>
CodePointRank(c) == CHOOSE k \in 1..Len(CodePointOrder) : CodePointOrder[k] = c

\* s < t for Python strings
StrLess(s, t) ==
  \E k \in 1..(Len(t)) :
     /\ \A j \in 1..(k - 1) : j <= Len(s) /\ s[j] = t[j]
     /\ k - 1 <= Len(s)
     /\ (k > Len(s) \/ CodePointRank(s[k]) < CodePointRank(t[k]))

\* sorted(S) for a set S of strings
sorted(S) ==
  [j \in 1..Cardinality(S) |->
     CHOOSE n \in S : Cardinality({o \in S : StrLess(o, n)}) = j - 1]

\* {b["name"]: b["value"] for b in benches}: the last entry of a name wins
dict_of(entries) ==
  [n \in {entries[k].name : k \in DOMAIN entries} |->
     entries[SetMax({k \in DOMAIN entries : entries[k].name = n})].value]

\* what the row reads for a name: map.get(name, 0)
lookup(map, name) ==
  IF name \in DOMAIN map THEN ValueTable[map[name]] ELSE MissingValue

\* the annotation of a row
\* a variant that annotates when either side is positive
comp_str_either(base, pr) == IF base.positive \/ pr.positive THEN Annotation ELSE <<>>
comp_str_of(base, pr) == IF base.positive /\ pr.positive THEN Annotation ELSE <<>>

\* the row printed for a name: its cells and the line
\* f"{name:<52}{base_str:<22}{pr_str:<22}{comp_str}"
row_of(name, base, pr) ==
  [name |-> name,
   base_str |-> base.cell,
   pr_str |-> pr.cell,
   comp_str |-> comp_str_of(base, pr),
   line |-> PadRight(name, 52) \o PadRight(base.cell, 22)
            \o PadRight(pr.cell, 22) \o comp_str_of(base, pr)]

NAME_UPPER ==
  <<"B">>
NAME_LOWER ==
  <<"a">>
NAME_LONGER ==
  <<"a", "B">>

NamePool == {NAME_UPPER, NAME_LOWER, NAME_LONGER}

\* the entries of a benches list
EntryPool == {[name |-> n, value |-> v] : n \in NamePool, v \in ValuePool}


(***************************************************************************)
(* The state of the three scripts.  Each script is run on its own: a      *)
(* specification below starts one of them and leaves the others idle.     *)
(***************************************************************************)
\* the bounds of the inputs
MaxLines == 4
MaxTokens == 4
MaxRecords == 2
MaxBenches == 3

VARIABLES
  \* benchmark_formatter.py
  file_exists,        \* comparison.md exists
  file,               \* its lines
  lines,              \* p.read_text().splitlines()
  processed_lines,
  in_code,
  max_content_width,
  diff_col_start,
  pc,                 \* "idle", "start", "width", "emit", "done", "failed"
  idx,                \* the index in lines of the line the running loop is at
  exit_code,          \* -1 while running, then the exit status
  \* benchmark_formatter.py, one data line taken on its own
  ex_tokens,          \* line.split()
  ex_numbers,         \* what extract_two_numbers returned
  ex_diff,            \* diff_val and the text appended to the line
  ex_pc,              \* "idle", "call", "returned", "raised", "diff", "plain"
  \* format_benchmark_data.py
  data,               \* the records of the input file
  benches,
  bench_idx,          \* the index in data of the record the loop is at
  output_data,        \* the benches of the output file, once written
  norm_pc,            \* "idle", "loop", "done"
  \* benchstat_simulator.py
  base_data,
  pr_data,
  base_map,
  pr_map,
  all_names,
  name_idx,           \* the index in all_names of the name the loop is at
  table_rows,         \* the rows printed, in order
  base_values,
  pr_values,
  geomean_row,        \* the geomean row is printed
  cmp_pc              \* "idle", "load", "rows", "done", "failed"

reflow_vars ==
  <<file_exists, file, lines, processed_lines, in_code, max_content_width,
    diff_col_start, pc, idx, exit_code>>
extract_vars == <<ex_tokens, ex_numbers, ex_diff, ex_pc>>
normalizer_vars == <<data, benches, bench_idx, output_data, norm_pc>>
comparator_vars ==
  <<base_data, pr_data, base_map, pr_map, all_names, name_idx, table_rows,
    base_values, pr_values, geomean_row, cmp_pc>>

vars == <<reflow_vars, extract_vars, normalizer_vars, comparator_vars>>

NoDiff == [diff_val |-> DZero, content |-> <<>>]
NotWritten == [written |-> FALSE, benches |-> <<>>]
\* json.load failed: load_json returned None
NoData == [loaded |-> FALSE, obj |-> <<>>]
EmptyDict == <<>>

ReflowIdle ==
  /\ file_exists = FALSE
  /\ file = <<>>
  /\ lines = <<>>
  /\ processed_lines = <<>>
  /\ in_code = FALSE
  /\ max_content_width = 0
  /\ diff_col_start = 0
  /\ pc = "idle"
  /\ idx = 0
  /\ exit_code = -1

ExtractIdle ==
  /\ ex_tokens = <<>>
  /\ ex_numbers = <<>>
  /\ ex_diff = NoDiff
  /\ ex_pc = "idle"

NormalizerIdle ==
  /\ data = <<>>
  /\ benches = <<>>
  /\ bench_idx = 0
  /\ output_data = NotWritten
  /\ norm_pc = "idle"

ComparatorIdle ==
  /\ base_data = NoData
  /\ pr_data = NoData
  /\ base_map = EmptyDict
  /\ pr_map = EmptyDict
  /\ all_names = <<>>
  /\ name_idx = 0
  /\ table_rows = <<>>
  /\ base_values = <<>>
  /\ pr_values = <<>>
  /\ geomean_row = FALSE
  /\ cmp_pc = "idle"


(***************************************************************************)
(* benchmark_formatter.py: the run.  comparison.md is a sequence of       *)
(* lines; file is its content, rewritten only by write_text.              *)
(***************************************************************************)
Documents == UNION {[1..n -> LinePool] : n \in 0..MaxLines}

ReflowInit ==
  /\ file_exists \in BOOLEAN
  /\ file \in (IF file_exists THEN Documents ELSE {<<>>})
  /\ lines = <<>>
  /\ processed_lines = <<>>
  /\ in_code = FALSE
  /\ max_content_width = 0
  /\ diff_col_start = 0
  /\ pc = "start"
  /\ idx = 0
  /\ exit_code = -1
  /\ ExtractIdle
  /\ NormalizerIdle
  /\ ComparatorIdle

\* if not p.exists(): sys.exit(0)
NotFound ==
  /\ pc = "start"
  /\ ~file_exists
  /\ pc' = "done"
  /\ exit_code' = 0
  /\ UNCHANGED <<file_exists, file, lines, processed_lines, in_code,
                 max_content_width, diff_col_start, idx>>
  /\ UNCHANGED <<extract_vars, normalizer_vars, comparator_vars>>

\* lines = p.read_text().splitlines()
ReadText ==
  /\ pc = "start"
  /\ file_exists
  /\ lines' = file
  /\ pc' = "width"
  /\ idx' = 1
  /\ UNCHANGED <<file_exists, file, processed_lines, in_code,
                 max_content_width, diff_col_start, exit_code>>
  /\ UNCHANGED <<extract_vars, normalizer_vars, comparator_vars>>

\* max_content_width after pass 0 has seen a line with the facts f
width_after(f, inside, width) ==
  IF ~f.fence /\ inside /\ ~f.footnote /\ ~f.metadata /\ ~f.header
     /\ f.width > width
  THEN f.width
  ELSE width

\* one iteration of the loop of pass 0
WidthStep ==
  /\ pc = "width"
  /\ idx <= Len(lines)
  /\ \E f \in {Facts(lines[idx])} :
        /\ in_code' = (IF f.fence THEN ~in_code ELSE in_code)
        /\ max_content_width' = width_after(f, in_code, max_content_width)
  /\ idx' = idx + 1
  /\ UNCHANGED <<file_exists, file, lines, processed_lines, diff_col_start,
                 pc, exit_code>>
  /\ UNCHANGED <<extract_vars, normalizer_vars, comparator_vars>>

\* diff_col_start = max_content_width - 13, and the emission loop starts
WidthDone ==
  /\ pc = "width"
  /\ idx > Len(lines)
  /\ diff_col_start' = max_content_width - 13
  /\ pc' = "emit"
  /\ idx' = 1
  /\ UNCHANGED <<file_exists, file, lines, processed_lines, in_code,
                 max_content_width, exit_code>>
  /\ UNCHANGED <<extract_vars, normalizer_vars, comparator_vars>>

\* The body of the emission loop for the line ln with the facts f:
\* [kind, out, toggles].  kind is "raise" when the iteration raises; out is
\* the line appended otherwise.
\* the branches of the loop body for a line inside the fenced region
emit_inside(f, ln, dcs) ==
  IF f.footnote
       THEN [kind |-> "ok", out |-> INDENT \o ln, toggles |-> FALSE]
  ELSE IF f.header
       THEN [kind |-> "ok", out |-> header_line(ln, dcs), toggles |-> FALSE]
  ELSE IF f.metadata
       THEN [kind |-> "ok", out |-> INDENT \o ln, toggles |-> FALSE]
  ELSE IF f.data.kind = "raise"
       THEN [kind |-> "raise", out |-> <<>>, toggles |-> FALSE]
  ELSE IF f.data.kind = "diff"
       THEN [kind |-> "ok",
             out |-> append_aligned(f.data.left, f.data.content, dcs),
             toggles |-> FALSE]
  ELSE [kind |-> "ok", out |-> INDENT \o f.data.plain, toggles |-> FALSE]

\* a variant without the pass-through of the lines outside the region
emit_line_no_passthrough(f, ln, inside, dcs) ==
  IF f.fence THEN [kind |-> "ok", out |-> ln, toggles |-> TRUE]
  ELSE emit_inside(f, ln, dcs)

emit_line(f, ln, inside, dcs) ==
  IF f.fence THEN [kind |-> "ok", out |-> ln, toggles |-> TRUE]
  ELSE IF ~inside THEN [kind |-> "ok", out |-> ln, toggles |-> FALSE]
  ELSE emit_inside(f, ln, dcs)

\* one iteration of the emission loop that completes
EmitStep ==
  /\ pc = "emit"
  /\ idx <= Len(lines)
  /\ \E r \in {emit_line(Facts(lines[idx]), lines[idx], in_code, diff_col_start)} :
        /\ r.kind = "ok"
        /\ processed_lines' = Append(processed_lines, r.out)
        /\ in_code' = (IF r.toggles THEN ~in_code ELSE in_code)
  /\ idx' = idx + 1
  /\ UNCHANGED <<file_exists, file, lines, max_content_width, diff_col_start,
                 pc, exit_code>>
  /\ UNCHANGED <<extract_vars, normalizer_vars, comparator_vars>>

\* an iteration raises: except Exception: sys.exit(1)
EmitRaise ==
  /\ pc = "emit"
  /\ idx <= Len(lines)
  /\ emit_line(Facts(lines[idx]), lines[idx], in_code, diff_col_start).kind = "raise"
  /\ pc' = "failed"
  /\ exit_code' = 1
  /\ UNCHANGED <<file_exists, file, lines, processed_lines, in_code,
                 max_content_width, diff_col_start, idx>>
  /\ UNCHANGED <<extract_vars, normalizer_vars, comparator_vars>>

\* p.write_text("\n".join(processed_lines) + "\n")
WriteText ==
  /\ pc = "emit"
  /\ idx > Len(lines)
  /\ file' = processed_lines
  /\ pc' = "done"
  /\ exit_code' = 0
  /\ UNCHANGED <<file_exists, lines, processed_lines, in_code,
                 max_content_width, diff_col_start, idx>>
  /\ UNCHANGED <<extract_vars, normalizer_vars, comparator_vars>>

ReflowNext ==
  \/ NotFound
  \/ ReadText
  \/ WidthStep
  \/ WidthDone
  \/ EmitStep
  \/ EmitRaise
  \/ WriteText

SpecReflow == ReflowInit /\ [][ReflowNext]_vars


(***************************************************************************)
(* benchmark_formatter.py: one data line taken on its own, from its       *)
(* tokens to the text appended to it.                                     *)
(***************************************************************************)
TokenSeqs == UNION {[1..n -> TokenPool] : n \in 0..MaxTokens}

ExtractInit ==
  /\ ex_tokens \in TokenSeqs
  /\ ex_numbers = <<>>
  /\ ex_diff = NoDiff
  /\ ex_pc = "call"
  /\ ReflowIdle
  /\ NormalizerIdle
  /\ ComparatorIdle

\* numbers = extract_two_numbers(tokens) returns
Extract ==
  /\ ex_pc = "call"
  /\ \E ext \in {extract_two_numbers(ex_tokens)} :
        /\ ext.kind = "ok"
        /\ ex_numbers' = ext.found
  /\ ex_pc' = "returned"
  /\ UNCHANGED <<ex_tokens, ex_diff>>
  /\ UNCHANGED <<reflow_vars, normalizer_vars, comparator_vars>>

\* extract_two_numbers raises ValueError
ExtractRaise ==
  /\ ex_pc = "call"
  /\ extract_two_numbers(ex_tokens).kind = "raise"
  /\ ex_pc' = "raised"
  /\ UNCHANGED <<ex_tokens, ex_numbers, ex_diff>>
  /\ UNCHANGED <<reflow_vars, normalizer_vars, comparator_vars>>

\* if len(numbers) == 2 and numbers[0] != 0: the diff value is appended
AppendDiff ==
  /\ ex_pc = "returned"
  /\ Len(ex_numbers) = 2 /\ ~DIsZero(ex_numbers[1])
  /\ ex_diff' = DiffOf(ex_numbers)
  /\ ex_pc' = "diff"
  /\ UNCHANGED <<ex_tokens, ex_numbers>>
  /\ UNCHANGED <<reflow_vars, normalizer_vars, comparator_vars>>

\* otherwise the line is emitted without a diff value
KeepPlain ==
  /\ ex_pc = "returned"
  /\ ~(Len(ex_numbers) = 2 /\ ~DIsZero(ex_numbers[1]))
  /\ ex_pc' = "plain"
  /\ UNCHANGED <<ex_tokens, ex_numbers, ex_diff>>
  /\ UNCHANGED <<reflow_vars, normalizer_vars, comparator_vars>>

ExtractNext ==
  \/ Extract
  \/ ExtractRaise
  \/ AppendDiff
  \/ KeepPlain

SpecExtract == ExtractInit /\ [][ExtractNext]_vars


(***************************************************************************)
(* format_benchmark_data.py: the run.                                     *)
(***************************************************************************)
InputLists == UNION {[1..n -> BenchPool] : n \in 0..MaxRecords}

NormalizerInit ==
  /\ data \in InputLists
  /\ benches = <<>>
  /\ bench_idx = 1
  /\ output_data = NotWritten
  /\ norm_pc = "loop"
  /\ ReflowIdle
  /\ ExtractIdle
  /\ ComparatorIdle

\* one iteration of for bench in data
NormalizeStep ==
  /\ norm_pc = "loop"
  /\ bench_idx <= Len(data)
  /\ \E cv \in {convert(data[bench_idx])} :
        benches' = IF cv.included THEN Append(benches, cv.record) ELSE benches
  /\ bench_idx' = bench_idx + 1
  /\ UNCHANGED <<data, output_data, norm_pc>>
  /\ UNCHANGED <<reflow_vars, extract_vars, comparator_vars>>

\* json.dump(output_data, f, indent=2)
DumpOutput ==
  /\ norm_pc = "loop"
  /\ bench_idx > Len(data)
  /\ output_data' = [written |-> TRUE, benches |-> benches]
  /\ norm_pc' = "done"
  /\ UNCHANGED <<data, benches, bench_idx>>
  /\ UNCHANGED <<reflow_vars, extract_vars, comparator_vars>>

NormalizerNext ==
  \/ NormalizeStep
  \/ DumpOutput

SpecNormalizer == NormalizerInit /\ [][NormalizerNext]_vars


(***************************************************************************)
(* benchstat_simulator.py: the run.                                       *)
(***************************************************************************)
EntryLists(n) == UNION {[1..k -> EntryPool] : k \in 0..n}

\* what load_json can return: None, an object without keys, or an object
\* with a benches list
LoadedData(n) ==
  {NoData, [loaded |-> TRUE, obj |-> EmptyDict]}
  \cup {[loaded |-> TRUE, obj |-> [benches |-> l]] : l \in EntryLists(n)}

\* the entries of a loaded file
benches_of(d) == Get(d.obj, "benches", <<>>)

\* not d, for what load_json returned
Falsy(d) == ~d.loaded \/ DOMAIN d.obj = {}

ComparatorInit ==
  /\ base_data \in LoadedData(MaxBenches)
  /\ pr_data \in LoadedData(MaxBenches - Len(benches_of(base_data)))
  /\ base_map = EmptyDict
  /\ pr_map = EmptyDict
  /\ all_names = <<>>
  /\ name_idx = 0
  /\ table_rows = <<>>
  /\ base_values = <<>>
  /\ pr_values = <<>>
  /\ geomean_row = FALSE
  /\ cmp_pc = "load"
  /\ ReflowIdle
  /\ ExtractIdle
  /\ NormalizerIdle

\* if not base_data or not pr_data: sys.exit(1)
ExitNoData ==
  /\ cmp_pc = "load"
  /\ Falsy(base_data) \/ Falsy(pr_data)
  /\ cmp_pc' = "failed"
  /\ UNCHANGED <<base_data, pr_data, base_map, pr_map, all_names, name_idx,
                 table_rows, base_values, pr_values, geomean_row>>
  /\ UNCHANGED <<reflow_vars, extract_vars, normalizer_vars>>

\* the two maps and the sorted union of their keys
BuildMaps ==
  /\ cmp_pc = "load"
  /\ ~(Falsy(base_data) \/ Falsy(pr_data))
  /\ base_map' = dict_of(benches_of(base_data))
  /\ pr_map' = dict_of(benches_of(pr_data))
  /\ all_names' = sorted(DOMAIN dict_of(benches_of(base_data))
                         \cup DOMAIN dict_of(benches_of(pr_data)))
  /\ name_idx' = 1
  /\ cmp_pc' = "rows"
  /\ UNCHANGED <<base_data, pr_data, table_rows, base_values, pr_values,
                 geomean_row>>
  /\ UNCHANGED <<reflow_vars, extract_vars, normalizer_vars>>

\* one iteration of for name in all_names
RowStep ==
  /\ cmp_pc = "rows"
  /\ name_idx <= Len(all_names)
  /\ \E base \in {lookup(base_map, all_names[name_idx])},
        pr \in {lookup(pr_map, all_names[name_idx])} :
        /\ base_values' =
             IF base.positive THEN Append(base_values, base.val) ELSE base_values
        /\ pr_values' =
             IF pr.positive THEN Append(pr_values, pr.val) ELSE pr_values
        /\ table_rows' = Append(table_rows, row_of(all_names[name_idx], base, pr))
  /\ name_idx' = name_idx + 1
  /\ UNCHANGED <<base_data, pr_data, base_map, pr_map, all_names, geomean_row,
                 cmp_pc>>
  /\ UNCHANGED <<reflow_vars, extract_vars, normalizer_vars>>

\* if base_values and pr_values: the geomean row; then the footnotes
PrintGeomean ==
  /\ cmp_pc = "rows"
  /\ name_idx > Len(all_names)
  /\ geomean_row' = (base_values # <<>> /\ pr_values # <<>>)
  /\ cmp_pc' = "done"
  /\ UNCHANGED <<base_data, pr_data, base_map, pr_map, all_names, name_idx,
                 table_rows, base_values, pr_values>>
  /\ UNCHANGED <<reflow_vars, extract_vars, normalizer_vars>>

ComparatorNext ==
  \/ ExitNoData
  \/ BuildMaps
  \/ RowStep
  \/ PrintGeomean

SpecComparator == ComparatorInit /\ [][ComparatorNext]_vars


(***************************************************************************)
(* The vocabulary of the properties.  What a property says of a token or  *)
(* of a line is computed here from the text alone, in exact decimal       *)
(* arithmetic, and compared with what the scripts produced.               *)
(***************************************************************************)
\* a token the scan passes over: a separator, or one with % or =
Skipped(t) ==
  \/ t \in SeparatorTokens
  \/ HasChar(t, "%") \/ HasChar(t, "=")
  \/ StartsWith(t, <<"p", "=">>) \/ StartsWith(t, <<"n", "=">>)

\* the number and the suffix of a token, superscripts removed and the text
\* cut at the first plus-minus sign or parenthesis
Lexeme(t) ==
  MatchNumber(Strip(BeforeFirst(Strip(BeforeFirst(clean_superscripts(t), "<pm>")), "(")))

\* the decimal exponent of a unit suffix: n 1e-9, u 1e-6, m 1e-3, s and none 1
UnitExponents ==
  [sfx \in {<<"n">>, <<"n", "s">>} |-> 9]
  @@ [sfx \in {<<"u">>, <<"u", "s">>} |-> 6]
  @@ [sfx \in {<<"m">>, <<"m", "s">>} |-> 3]
  @@ [sfx \in {<<"s">>, <<>>} |-> 0]

\* what a token is: skipped, a magnitude (with its exact value
\* (-1)^sg * D / 10^q in seconds), a number with an unexpected unit, or
\* no number at all
token_facts(t) ==
  IF Skipped(t) THEN [kind |-> "skipped"]
  ELSE The({IF ~lx.ok THEN [kind |-> "other"]
            ELSE IF lx.suffix \notin DOMAIN UnitExponents THEN [kind |-> "bad unit"]
            ELSE [kind |-> "magnitude",
                  sg |-> lx.sg,
                  D |-> DigitsValue(lx.digits),
                  q |-> lx.decimals + UnitExponents[lx.suffix]] :
            lx \in {Lexeme(t)}})
TokenFacts == [t \in KnownTokens |-> token_facts(t)]

\* the indices after the name of the tokens that are magnitudes, and of those
\* with an unexpected unit
MagnitudeIdx(toks) == {i \in 2..Len(toks) : TokenFacts[toks[i]].kind = "magnitude"}
BadUnitIdx(toks) == {i \in 2..Len(toks) : TokenFacts[toks[i]].kind = "bad unit"}
\* the k-th index of a set of indices
Kth(S, k) == CHOOSE i \in S : Cardinality({j \in S : j <= i}) = k
\* the tokens of the first two magnitudes, in order
FirstTwo(toks) ==
  [k \in 1..(IF Cardinality(MagnitudeIdx(toks)) < 2
             THEN Cardinality(MagnitudeIdx(toks)) ELSE 2) |->
     toks[Kth(MagnitudeIdx(toks), k)]]
\* an unexpected unit is met before two magnitudes have been read
BadBeforeTwo(toks) ==
  \E i \in BadUnitIdx(toks) : Cardinality({j \in MagnitudeIdx(toks) : j < i}) < 2

\* the float v is within two units in the last place of the exact value ex
NearExact(v, ex) ==
  IF ex.D = <<>> THEN DIsZero(v)
  ELSE /\ ~DIsZero(v)
       /\ v.sg = ex.sg
       /\ v.e <= 0
       /\ The({BCmp(IF BCmp(pr[1], pr[2]) >= 0 THEN BSub(pr[1], pr[2])
                    ELSE BSub(pr[2], pr[1]),
                    BMulSmall(BPow10(ex.q), 2)) <= 0 :
               pr \in {<<BMul(v.m, BPow10(ex.q)), BShl(ex.D, 0 - v.e)>>}})
MagnitudeTokens == {t \in KnownTokens : TokenFacts[t].kind = "magnitude"}
NearTable ==
  [pr \in KnownValues \X MagnitudeTokens |-> NearExact(pr[1], TokenFacts[pr[2]])]

\* The glyph the exact diff% of two non-negative magnitudes f > 0 and s asks
\* for: with f = F / 10^n and s = S / 10^n, diff% > 10 is 10 S > 11 F and
\* diff% < -10 is 10 S < 9 F.
ExactGlyph(f, s) ==
  The({IF BCmp(BMulSmall(pr[2], 10), BMulSmall(pr[1], 11)) > 0 THEN SlowerIcon
       ELSE IF BCmp(BMulSmall(pr[2], 10), BMulSmall(pr[1], 9)) < 0 THEN FasterIcon
       ELSE NeutralIcon :
       pr \in {<<BMul(f.D, BPow10(s.q)), BMul(s.D, BPow10(f.q))>>}})
GlyphTable ==
  [pr \in {tt \in MagnitudeTokens \X MagnitudeTokens :
             /\ TokenFacts[tt[1]].sg = 0 /\ TokenFacts[tt[2]].sg = 0
             /\ TokenFacts[tt[1]].D # <<>>} |->
     ExactGlyph(TokenFacts[pr[1]], TokenFacts[pr[2]])]

\* the glyph at the end of an appended text "+d.dd% glyph"
GlyphOf(content) ==
  SubSeq(content, (CHOOSE i \in 1..Len(content) : content[i] = "%") + 2, Len(content))

\* What a property says of a line of the report taken as a data line.
line_facts(ln) ==
  The({[left |-> RStrip(stripped),
        diff |-> /\ ~BadBeforeTwo(Split(stripped))
                 /\ Len(FirstTwo(Split(stripped))) = 2
                 /\ TokenFacts[FirstTwo(Split(stripped))[1]].D # <<>>,
        bad_before_two |-> BadBeforeTwo(Split(stripped)),
        bad_unit |-> BadUnitIdx(Split(stripped)) # {}] :
       stripped \in {strip_worker_suffix(ln)}})
LineFacts == [l \in LinePool |-> line_facts(l)]

\* the region of the report between fence lines, counted from the top
FencesBefore(k) == Cardinality({j \in 1..(k - 1) : Facts(lines[j]).fence})
EvenFences == FencesBefore(Len(lines) + 1) % 2 = 0
Inside(k) == FencesBefore(k) % 2 = 1
\* the width pass is over and the lines are being emitted or are written
Emitting == file_exists /\ pc \in {"emit", "done"}
\* the classes of the lines inside the region
MetadataRow(k) ==
  Inside(k) /\ ~Facts(lines[k]).fence /\ ~Facts(lines[k]).footnote
  /\ Facts(lines[k]).metadata
HeaderRow(k) ==
  Inside(k) /\ ~Facts(lines[k]).fence /\ ~Facts(lines[k]).footnote
  /\ ~Facts(lines[k]).metadata /\ Facts(lines[k]).header
DataRow(k) ==
  Inside(k) /\ ~Facts(lines[k]).fence /\ ~Facts(lines[k]).footnote
  /\ ~Facts(lines[k]).metadata /\ ~Facts(lines[k]).header
DiffRow(k) == DataRow(k) /\ LineFacts[lines[k]].diff
\* the widest stripped data line, 0 without data lines
MaxDataWidth ==
  SetMax({0} \cup {Len(LineFacts[lines[k]].left) : k \in {j \in 1..Len(lines) : DataRow(j)}})


(***************************************************************************)
(* TableReflow: the properties of the report.                             *)
(***************************************************************************)
\* the text out ends with the text content, which starts at offset off
EndsAtOffset(out, off, content) ==
  /\ off >= 0
  /\ off + Len(content) = Len(out)
  /\ SubSeq(out, off + 1, Len(out)) = content
\* the appended text of the data line k
ContentOf(k) == Facts(lines[k]).data.content
LeftOf(k) == LineFacts[lines[k]].left

\* C1 (as amended): in a report whose fence lines pair up, diff_col_start is
\* the greatest stripped width of the data lines minus 13, and a data line
\* that receives a diff value is emitted as the indent, its stripped left
\* part, a gap and the value, where the gap brings the value to offset
\* diff_col_start after the indent when the left part is shorter than
\* diff_col_start and is exactly two spaces otherwise.
C1_DiffColumnOrTwoSpaces ==
  (Emitting /\ EvenFences) =>
    /\ diff_col_start = MaxDataWidth - 13
    /\ \A k \in 1..Len(processed_lines) :
         DiffRow(k) =>
           processed_lines[k] =
             INDENT \o LeftOf(k)
             \o Spaces(IF Len(LeftOf(k)) < diff_col_start
                       THEN diff_col_start - Len(LeftOf(k)) ELSE 2)
             \o ContentOf(k)

\* C1 (as stated): every data line that receives a diff value has the value
\* start at offset diff_col_start after the 8-space indent.
C1_AlwaysAtDiffColumn ==
  (Emitting /\ EvenFences) =>
    \A k \in 1..Len(processed_lines) :
      DiffRow(k) =>
        EndsAtOffset(processed_lines[k], Len(INDENT) + diff_col_start, ContentOf(k))

\* C1 witness: a written report with a diff value at the diff column and
\* another two spaces after a left part that reaches the column
C1_Witness ==
  /\ pc = "done" /\ file_exists /\ EvenFences
  /\ \E k \in 1..Len(file) :
       /\ DiffRow(k) /\ Len(LeftOf(k)) < diff_col_start
       /\ EndsAtOffset(file[k], Len(INDENT) + diff_col_start, ContentOf(k))
  /\ \E k \in 1..Len(file) :
       /\ DiffRow(k) /\ Len(LeftOf(k)) >= diff_col_start
       /\ EndsAtOffset(file[k], Len(INDENT) + Len(LeftOf(k)) + 2, ContentOf(k))

\* C2: a report with exactly two fence lines is written with as many lines
\* as it had, and every line up to the first fence and from the second fence
\* on, both fences included, is written as it was read.
C2_FramePreserved ==
  (pc = "done" /\ file_exists /\ FencesBefore(Len(lines) + 1) = 2) =>
    /\ Len(file) = Len(lines)
    /\ \A k \in 1..Len(lines) :
         (Facts(lines[k]).fence \/ ~Inside(k)) => file[k] = lines[k]

\* C2 witness: two fences, a line before them kept and a line between them
\* rewritten
C2_Witness ==
  /\ pc = "done" /\ file_exists /\ FencesBefore(Len(lines) + 1) = 2
  /\ \E k \in 1..Len(lines) :
       ~Facts(lines[k]).fence /\ ~Inside(k) /\ lines[k] # <<>> /\ file[k] = lines[k]
  /\ \E k \in 1..Len(lines) : Inside(k) /\ file[k] # lines[k]

\* C5 (as amended): in a report whose fence lines pair up, the run fails
\* exactly at a data line where a number with an unexpected unit comes after
\* the name and before two magnitudes have been read; it then exits with
\* status 1 and leaves the file as it was read.  A report that is written has
\* no such data line.
C5_BadUnitBeforeTwoMagnitudes ==
  EvenFences =>
    /\ pc = "failed" =>
         /\ exit_code = 1
         /\ file = lines
         /\ DataRow(idx) /\ LineFacts[lines[idx]].bad_before_two
    /\ Emitting =>
         \A k \in 1..Len(processed_lines) :
           ~(DataRow(k) /\ LineFacts[lines[k]].bad_before_two)

\* C5 (as stated): a report with a data line that has, after its name, a
\* number with an unexpected unit is never written.
C5_AnyBadUnitFails ==
  (pc = "done" /\ file_exists /\ EvenFences) =>
    \A k \in 1..Len(lines) : ~(DataRow(k) /\ LineFacts[lines[k]].bad_unit)

\* C5 witness: the run has failed at such a data line after emitting others
C5_Witness ==
  /\ pc = "failed" /\ exit_code = 1 /\ EvenFences /\ file = lines
  /\ idx > 2
  /\ DataRow(idx) /\ LineFacts[lines[idx]].bad_before_two
  /\ \E k \in 1..(idx - 1) : DiffRow(k)

\* the header of line k without its old Diff label
HeaderOf(k) == stripped_header_of(lines[k])
HeaderGap(k) ==
  Spaces(IF Len(HeaderOf(k)) < diff_col_start
         THEN diff_col_start - Len(HeaderOf(k)) ELSE 2)

\* C8 (as amended): in a report whose fence lines pair up, a header line
\* that is neither a footnote nor a metadata line is emitted as the indent,
\* the header without its old Diff label, a gap, the label "Diff" when the
\* line contains "vs base" and no label otherwise, and a divider; the gap
\* brings the label to offset diff_col_start after the indent when the
\* stripped header is shorter than diff_col_start and is two spaces
\* otherwise.
C8_HeaderLabelWhenVsBase ==
  (Emitting /\ EvenFences) =>
    \A k \in 1..Len(processed_lines) :
      HeaderRow(k) =>
        processed_lines[k] =
          INDENT \o HeaderOf(k) \o HeaderGap(k)
          \o (IF Contains(lines[k], VsBase) THEN <<"D", "i", "f", "f">> ELSE <<>>)
          \o <<"<bar>">>

\* C8 (as stated): every header line inside the fenced region is emitted
\* with the label "Diff" at offset diff_col_start after the indent, followed
\* by a divider.
C8_LabelAtDiffColumn ==
  (Emitting /\ EvenFences) =>
    \A k \in 1..Len(processed_lines) :
      HeaderRow(k) =>
        EndsAtOffset(processed_lines[k], Len(INDENT) + diff_col_start,
                     <<"D", "i", "f", "f", "<bar>">>)

\* C8 witness: a written report with a "vs base" header whose label stands
\* at the diff column, followed by the divider
C8_Witness ==
  /\ pc = "done" /\ file_exists /\ EvenFences
  /\ \E k \in 1..Len(file) :
       /\ HeaderRow(k) /\ Contains(lines[k], VsBase)
       /\ Len(HeaderOf(k)) < diff_col_start
       /\ EndsAtOffset(file[k], Len(INDENT) + diff_col_start,
                       <<"D", "i", "f", "f", "<bar>">>)

\* C9: a metadata or blank line inside the fenced region that is no footnote
\* is emitted as the indent followed by the line as it was read, whatever
\* else it contains, and the width pass leaves it out of the greatest width.
C9_MetadataBeforeHeader ==
  (Emitting /\ EvenFences) =>
    /\ diff_col_start = MaxDataWidth - 13
    /\ \A k \in 1..Len(processed_lines) :
         MetadataRow(k) => processed_lines[k] = INDENT \o lines[k]

\* C10: a line that the width pass saw outside the fenced region is written
\* as it was read, whatever the number of fence lines.
C10_OutsideLinesUntouched ==
  (pc = "done" /\ file_exists) =>
    \A k \in 1..Len(lines) : ~Inside(k) => file[k] = lines[k]

(***************************************************************************)
(* extract_two_numbers and the diff value: the properties.                *)
(***************************************************************************)
\* 123.45 ms and 5 ns in seconds, as the nearest floats
Seconds_0p12345 == DFromDec(0, BN(12345), 5)
Seconds_5eMinus9 == DFromDec(0, BN(5), 9)

\* C3: the glyph appended with the diff value is the one that the diff% of
\* the two magnitudes asks for: snail above 10, rocket below -10, and the
\* neutral arrow from -10 to 10, both ends included.
C3_GlyphOfDiff ==
  ex_pc = "diff" =>
    GlyphOf(ex_diff.content) = GlyphTable[<<FirstTwo(ex_tokens)[1], FirstTwo(ex_tokens)[2]>>]

\* C4: extract_two_numbers returns at most two numbers; they are, in order,
\* the values in seconds of the first magnitudes after the name token, a
\* separator or a token with % or = never being one of them; each is the
\* number of the token scaled by its unit, to within two units in the last
\* place, and 123.45ms and 5n give 0.12345 and 5e-9.
C4_FirstTwoMagnitudes ==
  ex_pc \in {"returned", "diff", "plain"} =>
    /\ Len(ex_numbers) <= 2
    /\ Len(ex_numbers) = Len(FirstTwo(ex_tokens))
    /\ \A k \in 1..Len(ex_numbers) :
         /\ NearTable[<<ex_numbers[k], FirstTwo(ex_tokens)[k]>>]
         /\ FirstTwo(ex_tokens)[k] = T_123ms => ex_numbers[k] = Seconds_0p12345
         /\ FirstTwo(ex_tokens)[k] = T_5n => ex_numbers[k] = Seconds_5eMinus9

\* C4 witness: a magnitude in the place of the name, then 123.45ms, a
\* percentage and 5n have given 0.12345 and 5e-9
C4_Witness ==
  /\ ex_pc = "returned"
  /\ ex_tokens = <<T_1m, T_123ms, T_PCT, T_5n>>
  /\ ex_numbers = <<Seconds_0p12345, Seconds_5eMinus9>>

(***************************************************************************)
(* Normalizer: the properties.                                            *)
(***************************************************************************)
\* C6: every record of the written output has a value above zero.
C6_ValuesPositive ==
  norm_pc = "done" =>
    \A k \in 1..Len(output_data.benches) :
      DGt(output_data.benches[k].value, DZero)

(***************************************************************************)
(* Comparator: the properties.                                            *)
(***************************************************************************)
\* the names of a loaded file and the value of a name, the last entry winning
NamesOf(d) == {benches_of(d)[k].name : k \in 1..Len(benches_of(d))}
LastValue(d, n) ==
  benches_of(d)[SetMax({k \in 1..Len(benches_of(d)) : benches_of(d)[k].name = n})].value
\* the sign of a decimal literal
LiteralNonzero(txt) == \E i \in 1..Len(txt) : txt[i] \in DigitSet \ {"0"}
LiteralPositive(txt) == LiteralNonzero(txt) /\ txt[1] # "-"
OnBothSides(n) == n \in NamesOf(base_data) /\ n \in NamesOf(pr_data)
\* one row per name of either file, in ascending order, with N/A on the side
\* where the name is missing
RowsOfUnion ==
  /\ {table_rows[k].name : k \in 1..Len(table_rows)}
       = NamesOf(base_data) \cup NamesOf(pr_data)
  /\ Len(table_rows) = Cardinality(NamesOf(base_data) \cup NamesOf(pr_data))
  /\ \A k \in 1..(Len(table_rows) - 1) :
       StrLess(table_rows[k].name, table_rows[k + 1].name)
  /\ \A k \in 1..Len(table_rows) :
       /\ table_rows[k].name \notin NamesOf(base_data)
            => table_rows[k].base_str = NotAvailable
       /\ table_rows[k].name \notin NamesOf(pr_data)
            => table_rows[k].pr_str = NotAvailable

\* C7 (as amended): the table has one row per name of the union of the two
\* files, in ascending order; a side reads N/A when the name is missing from
\* it; and a row carries the annotation exactly when the name is on both
\* sides with values above zero, and no annotation otherwise.
C7_AnnotationWhenBothPositive ==
  cmp_pc = "done" =>
    /\ RowsOfUnion
    /\ \A k \in 1..Len(table_rows) :
         table_rows[k].comp_str =
           IF /\ OnBothSides(table_rows[k].name)
              /\ LiteralPositive(LastValue(base_data, table_rows[k].name))
              /\ LiteralPositive(LastValue(pr_data, table_rows[k].name))
           THEN Annotation ELSE <<>>

\* C7 (as stated): ... and a row carries the annotation exactly when the
\* name is on both sides with nonzero values.
C7_AnnotationWhenBothNonzero ==
  cmp_pc = "done" =>
    /\ RowsOfUnion
    /\ \A k \in 1..Len(table_rows) :
         table_rows[k].comp_str =
           IF /\ OnBothSides(table_rows[k].name)
              /\ LiteralNonzero(LastValue(base_data, table_rows[k].name))
              /\ LiteralNonzero(LastValue(pr_data, table_rows[k].name))
           THEN Annotation ELSE <<>>

\* C7 witness: a table of two rows, one annotated with a value on both
\* sides, one with N/A for a name missing from a side and no annotation
C7_Witness ==
  /\ cmp_pc = "done"
  /\ Len(table_rows) = 2
  /\ \E k \in 1..2 :
       /\ OnBothSides(table_rows[k].name)
       /\ table_rows[k].comp_str = Annotation
       /\ table_rows[k].base_str # NotAvailable
       /\ table_rows[k].pr_str # NotAvailable
  /\ \E k \in 1..2 :
       /\ ~OnBothSides(table_rows[k].name)
       /\ table_rows[k].comp_str = <<>>
       /\ NotAvailable \in {table_rows[k].base_str, table_rows[k].pr_str}

=============================================================================
